---- MODULE Spec2Model ----
(***************************************************************************)
(* Model of src/src/mir.rs: the MIR arena of the compiler.                 *)
(*                                                                         *)
(*   - the build-time block-state ledger of MirCode (block_states,         *)
(*     get_block_state, start_block, end_block, check_all_blocks_ended);   *)
(*   - the arena helpers of Code (get_mir_instr, num_parameters);          *)
(*   - the constant sub-language (Const::ty).                              *)
(*                                                                         *)
(* A Rust panic is modelled as the outcome of the call (ok = FALSE and the *)
(* panic message); the arena keeps whatever the call wrote before it       *)
(* panicked, which is what a caller that catches the unwind observes.      *)
(***************************************************************************)
EXTENDS Integers, Sequences, FiniteSets

VARIABLES
    block_states,   \* MirCode.block_states: HashMap<BlockId, BlockState>
    hist,           \* history: per block, the start/end calls made on it
    call,           \* history: the last ledger call and its outcome
    prev_states,    \* history: block_states as the last ledger call found it
    instrs,         \* MirCode.instrs: IndexVec<InstrId, Instr>
    blocks,         \* Code.blocks: per BlockId, the block's op slots
    func_blocks,    \* Function.blocks of the function under query
    np,             \* outcome of the last num_parameters call
    konst,          \* the Const under query
    ty_out          \* outcome of the last Const::ty call

vars == <<block_states, hist, call, prev_states, instrs, blocks, func_blocks, np, konst, ty_out>>

ledgerVars == <<block_states, hist, call, prev_states>>
paramVars == <<instrs, blocks, func_blocks, np>>
constVars == <<konst, ty_out>>

(***************************************************************************)
(* Bounds                                                                  *)
(***************************************************************************)
NumBlocks == 2          \* block ids 0..NumBlocks-1
MaxCalls == 4           \* start_block/end_block calls made in all
MaxOps == 4             \* op slots of the entry block
MaxFields == 1          \* field constants of a Const::StructLit
NumStructs == 2         \* struct ids 0..NumStructs-1

BlockIds == 0 .. (NumBlocks - 1)

\* Sequences over S of length at most n.
SeqUpTo(S, n) == UNION { [1 .. k -> S] : k \in 0 .. n }

Range(s) == { s[i] : i \in DOMAIN s }

\* Block lists of a Function: each block id appears at most once.
FuncBlockLists ==
    { f \in SeqUpTo(BlockIds, NumBlocks) : Cardinality(Range(f)) = Len(f) }

(***************************************************************************)
(* Block-state ledger                                                      *)
(***************************************************************************)
BlockState == { "Created", "Started", "Ended" }

NoMsg == [text |-> "", state |-> "", index |-> -1]

\* The state the ledger reports for a block: absence reads as Created.
StateOf(m, b) == IF b \in DOMAIN m THEN m[b] ELSE "Created"

\* Faulty variant of get_block_state: insert(block, Created) in place of
\* entry(block).or_insert(Created), which overwrites an existing entry.
get_block_state_insert(m, b) ==
    [x \in (DOMAIN m) \cup {b} |-> IF x = b THEN "Created" ELSE m[x]]

\* self.block_states.entry(block).or_insert(BlockState::Created)
get_block_state(m, b) ==
    IF b \in DOMAIN m
    THEN m
    ELSE [x \in (DOMAIN m) \cup {b} |-> IF x = b THEN "Created" ELSE m[x]]

\* MirCode::start_block: the ledger after the call and the call's outcome.
start_block(m, b) ==
    LET m1 == get_block_state(m, b) IN
    IF m1[b] = "Ended"
    THEN [states |-> m1, ok |-> FALSE,
          msg |-> [text |-> "MIR: tried to start an ended block",
                   state |-> "", index |-> -1]]
    ELSE [states |-> [m1 EXCEPT ![b] = "Started"], ok |-> TRUE, msg |-> NoMsg]

\* MirCode::end_block: the assertion is the whole body; the state is not
\* written.
end_block(m, b) ==
    LET m1 == get_block_state(m, b) IN
    IF m1[b] = "Started"
    THEN [states |-> m1, ok |-> TRUE, msg |-> NoMsg]
    ELSE [states |-> m1, ok |-> FALSE,
          msg |-> [text |-> "MIR: tried to end a block in the {:?} state",
                   state |-> m1[b], index |-> -1]]

\* The verdict of check_all_blocks_ended on the blocks f[i..]: the loop
\* stops at the first block that panics.
RECURSIVE CheckFrom(_, _, _)
CheckFrom(m, f, i) ==
    IF i > Len(f)
    THEN [ok |-> TRUE, msg |-> NoMsg]
    ELSE IF f[i] \notin DOMAIN m
    THEN \* HashMap's Index panics on a missing key
         [ok |-> FALSE,
          msg |-> [text |-> "no entry found for key", state |-> "", index |-> -1]]
    ELSE IF m[f[i]] # "Ended"
    THEN [ok |-> FALSE,
          msg |-> [text |-> "Block {} was not ended", state |-> "", index |-> f[i]]]
    ELSE CheckFrom(m, f, i + 1)

\* MirCode::check_all_blocks_ended (takes &self: the ledger is not written).
check_all_blocks_ended(m, f) == CheckFrom(m, f, 1)

NoCall == [op |-> "none", block |-> -1, func |-> <<>>, ok |-> TRUE, msg |-> NoMsg]

\* The number of start_block/end_block calls made on the blocks of S.
RECURSIVE CallsOn(_)
CallsOn(S) ==
    IF S = {} THEN 0
    ELSE LET b == CHOOSE x \in S : TRUE IN Len(hist[b]) + CallsOn(S \ {b})

StartBlock(b) ==
    LET r == start_block(block_states, b) IN
    /\ CallsOn(BlockIds) < MaxCalls
    /\ block_states' = r.states
    /\ hist' = [hist EXCEPT ![b] = Append(@, [op |-> "start_block", ok |-> r.ok])]
    /\ call' = [op |-> "start_block", block |-> b, func |-> <<>>,
                ok |-> r.ok, msg |-> r.msg]
    /\ prev_states' = block_states

EndBlock(b) ==
    LET r == end_block(block_states, b) IN
    /\ CallsOn(BlockIds) < MaxCalls
    /\ block_states' = r.states
    /\ hist' = [hist EXCEPT ![b] = Append(@, [op |-> "end_block", ok |-> r.ok])]
    /\ call' = [op |-> "end_block", block |-> b, func |-> <<>>,
                ok |-> r.ok, msg |-> r.msg]
    /\ prev_states' = block_states

CheckAllBlocksEnded(f) ==
    LET r == check_all_blocks_ended(block_states, f) IN
    /\ call' = [op |-> "check_all_blocks_ended", block |-> -1, func |-> f,
                ok |-> r.ok, msg |-> r.msg]
    /\ prev_states' = block_states
    /\ UNCHANGED <<block_states, hist>>

LedgerStart ==
    /\ \E b \in BlockIds : StartBlock(b)
    /\ UNCHANGED <<paramVars, constVars>>

LedgerEnd ==
    /\ \E b \in BlockIds : EndBlock(b)
    /\ UNCHANGED <<paramVars, constVars>>

LedgerCheck ==
    /\ \E f \in FuncBlockLists : CheckAllBlocksEnded(f)
    /\ UNCHANGED <<paramVars, constVars>>

LedgerNext == LedgerStart \/ LedgerEnd \/ LedgerCheck

(***************************************************************************)
(* Types and constants                                                     *)
(***************************************************************************)
StructIds == 0 .. (NumStructs - 1)

\* crate::ty::Type: the forms Const::ty names, and two numeric types.
Types ==
    { [tag |-> "I32"], [tag |-> "F64"], [tag |-> "Bool"], [tag |-> "Ty"],
      [tag |-> "Mod"] }
    \cup { [tag |-> "Struct", id |-> s] : s \in StructIds }

Lits == { 0, 1 }
StrIds == { 0 }
ModScopeIds == { 0, 1 }

\* enum Const, without StructLit.
FlatConsts ==
    { [tag |-> "Int", lit |-> l, ty |-> t] : l \in Lits, t \in Types }
    \cup { [tag |-> "Float", lit |-> l, ty |-> t] : l \in Lits, t \in Types }
    \cup { [tag |-> "Str", id |-> i, ty |-> t] : i \in StrIds, t \in Types }
    \cup { [tag |-> "Bool", b |-> v] : v \in BOOLEAN }
    \cup { [tag |-> "Ty", t |-> t] : t \in Types }
    \cup { [tag |-> "Mod", scope |-> m] : m \in ModScopeIds }

\* enum Const: a StructLit holds field constants, themselves constants.
FieldConsts ==
    FlatConsts \cup { [tag |-> "StructLit", fields |-> <<>>, id |-> s] : s \in StructIds }

Consts ==
    FlatConsts
    \cup { [tag |-> "StructLit", fields |-> fs, id |-> s] :
             fs \in SeqUpTo(FieldConsts, MaxFields), s \in StructIds }

\* Faulty variant of Const_ty: Const::Ty(t) yields the embedded type t.
Const_ty_embedded(c) ==
    CASE c.tag = "Int" -> c.ty
      [] c.tag = "Float" -> c.ty
      [] c.tag = "Str" -> c.ty
      [] c.tag = "Bool" -> [tag |-> "Bool"]
      [] c.tag = "Ty" -> c.t
      [] c.tag = "Mod" -> [tag |-> "Mod"]
      [] c.tag = "StructLit" -> [tag |-> "Struct", id |-> c.id]

\* Const::ty
Const_ty(c) ==
    CASE c.tag = "Int" -> c.ty
      [] c.tag = "Float" -> c.ty
      [] c.tag = "Str" -> c.ty
      [] c.tag = "Bool" -> [tag |-> "Bool"]
      [] c.tag = "Ty" -> [tag |-> "Ty"]
      [] c.tag = "Mod" -> [tag |-> "Mod"]
      [] c.tag = "StructLit" -> [tag |-> "Struct", id |-> c.id]

NoTy == [called |-> FALSE, ty |-> [tag |-> "none"]]

\* A caller evaluates konst.ty().
CallTy ==
    /\ ~ty_out.called
    /\ ty_out' = [called |-> TRUE, ty |-> Const_ty(konst)]
    /\ UNCHANGED <<konst, ledgerVars, paramVars>>

ConstNext == CallTy

(***************************************************************************)
(* Code arena helpers                                                      *)
(***************************************************************************)
\* Option<T>
None == <<>>
Some(x) == <<x>>

\* Op::as_mir_instr: the InstrId of a slot that holds a MIR instruction.
as_mir_instr(slot) == IF slot.mir THEN Some(slot.instr) ELSE None

\* Code::get_mir_instr on a borrowed block: ops is block.ops, op an OpId
\* (0-based) within it.
get_mir_instr(arena, ops, op) ==
    LET id == as_mir_instr(ops[op + 1]) IN
    IF id = None THEN None ELSE Some(arena[id[1] + 1])

NpPanic(t) == [called |-> TRUE, ok |-> FALSE, value |-> -1, text |-> t]
NpOk(n) == [called |-> TRUE, ok |-> TRUE, value |-> n, text |-> ""]

\* Faulty variant of CountFrom: a non-Parameter instruction is skipped (continue)
\* instead of ending the loop (break).
RECURSIVE CountFrom_continue(_, _, _, _)
CountFrom_continue(arena, ops, i, n) ==
    IF i >= Len(ops)
    THEN NpOk(n)
    ELSE LET g == get_mir_instr(arena, ops, i) IN
         IF g = None
         THEN NpPanic("called Option::unwrap() on a None value")
         ELSE IF g[1].tag = "Parameter"
         THEN CountFrom_continue(arena, ops, i + 1, n + 1)
         ELSE CountFrom_continue(arena, ops, i + 1, n)

\* Faulty variant of CountFrom: a slot that holds no MIR instruction ends the loop
\* instead of panicking (no unwrap).
RECURSIVE CountFrom_lenient(_, _, _, _)
CountFrom_lenient(arena, ops, i, n) ==
    IF i >= Len(ops)
    THEN NpOk(n)
    ELSE LET g == get_mir_instr(arena, ops, i) IN
         IF g # None /\ g[1].tag = "Parameter"
         THEN CountFrom_lenient(arena, ops, i + 1, n + 1)
         ELSE NpOk(n)

\* The loop of num_parameters from op i with n parameters counted so far.
RECURSIVE CountFrom(_, _, _, _)
CountFrom(arena, ops, i, n) ==
    IF i >= Len(ops)
    THEN NpOk(n)
    ELSE LET g == get_mir_instr(arena, ops, i) IN
         IF g = None
         THEN NpPanic("called Option::unwrap() on a None value")
         ELSE IF g[1].tag = "Parameter"
         THEN CountFrom(arena, ops, i + 1, n + 1)
         ELSE NpOk(n)

\* Faulty variant of num_parameters: the assert_eq on the Void instruction is
\* missing.
num_parameters_noassert(arena, blks, fblocks) ==
    IF Len(fblocks) = 0
    THEN NpPanic("index out of bounds")
    ELSE LET ops == blks[fblocks[1]] IN
         IF Len(ops) = 0
         THEN NpPanic("index out of bounds")
         ELSE LET g == get_mir_instr(arena, ops, 0) IN
              IF g = None
              THEN NpPanic("called Option::unwrap() on a None value")
              ELSE CountFrom(arena, ops, 1, 0)

\* Code::num_parameters
num_parameters(arena, blks, fblocks) ==
    IF Len(fblocks) = 0
    THEN NpPanic("index out of bounds")
    ELSE LET ops == blks[fblocks[1]] IN
         IF Len(ops) = 0
         THEN NpPanic("index out of bounds")
         ELSE LET g == get_mir_instr(arena, ops, 0) IN
              IF g = None
              THEN NpPanic("called Option::unwrap() on a None value")
              ELSE IF g[1] # [tag |-> "Void"]
              THEN NpPanic("assertion failed: (left == right)")
              ELSE CountFrom(arena, ops, 1, 0)

NoNp == [called |-> FALSE, ok |-> TRUE, value |-> -1, text |-> ""]

\* The instructions the emitter under model pushes.
EmittedInstrs ==
    { [tag |-> "Void"],
      [tag |-> "Parameter", ty |-> [tag |-> "I32"]],
      [tag |-> "Parameter", ty |-> [tag |-> "Bool"]],
      [tag |-> "Const", c |-> [tag |-> "Bool", b |-> TRUE]],
      [tag |-> "Ret", val |-> IF Len(instrs) = 0 THEN 0 ELSE Len(instrs) - 1] }

\* The emitter appends a MIR instruction to the arena and a slot naming it
\* to the function's entry block.
EmitMir ==
    /\ Len(func_blocks) > 0
    /\ Len(blocks[func_blocks[1]]) < MaxOps
    /\ \E ins \in EmittedInstrs :
         /\ instrs' = Append(instrs, ins)
         /\ blocks' = [blocks EXCEPT ![func_blocks[1]] =
                          Append(@, [mir |-> TRUE, instr |-> Len(instrs)])]
    /\ np' = NoNp
    /\ UNCHANGED <<func_blocks, ledgerVars, constVars>>

\* The emitter appends an op that is not a MIR instruction.
EmitOther ==
    /\ Len(func_blocks) > 0
    /\ Len(blocks[func_blocks[1]]) < MaxOps
    /\ blocks' = [blocks EXCEPT ![func_blocks[1]] =
                     Append(@, [mir |-> FALSE, instr |-> -1])]
    /\ np' = NoNp
    /\ UNCHANGED <<instrs, func_blocks, ledgerVars, constVars>>

NumParameters ==
    /\ ~np.called
    /\ np' = num_parameters(instrs, blocks, func_blocks)
    /\ UNCHANGED <<instrs, blocks, func_blocks, ledgerVars, constVars>>

ParamNext == EmitMir \/ EmitOther \/ NumParameters

(***************************************************************************)
(* Specifications                                                          *)
(***************************************************************************)
IdleLedger ==
    /\ block_states = <<>>
    /\ hist = [b \in BlockIds |-> <<>>]
    /\ call = NoCall
    /\ prev_states = <<>>

IdleParams ==
    /\ instrs = <<>>
    /\ blocks = [b \in BlockIds |-> <<>>]
    /\ func_blocks = <<>>
    /\ np = NoNp

IdleConst ==
    /\ konst = [tag |-> "Bool", b |-> TRUE]
    /\ ty_out = NoTy

LedgerInit == IdleLedger /\ IdleParams /\ IdleConst

ParamInit ==
    /\ instrs = <<>>
    /\ blocks = [b \in BlockIds |-> <<>>]
    /\ func_blocks \in FuncBlockLists
    /\ np = NoNp
    /\ IdleLedger /\ IdleConst

ConstInit ==
    /\ konst \in Consts
    /\ ty_out = NoTy
    /\ IdleLedger /\ IdleParams

LedgerSpec == LedgerInit /\ [][LedgerNext]_vars

ParamSpec == ParamInit /\ [][ParamNext]_vars

ConstSpec == ConstInit /\ [][ConstNext]_vars

(***************************************************************************)
(* Properties of the block-state ledger (LedgerSpec)                       *)
(***************************************************************************)
StartOk == [op |-> "start_block", ok |-> TRUE]
EndOk == [op |-> "end_block", ok |-> TRUE]

\* Block b was started and later ended, both calls succeeding.
StartedThenEnded(b) ==
    \E i, j \in DOMAIN hist[b] : i < j /\ hist[b][i] = StartOk /\ hist[b][j] = EndOk

\* C1: end_block(b) on a block whose ledger state is Started succeeds and
\* leaves b's ledger state equal to Ended.
C1_EndBlockSetsEnded ==
    (call.op = "end_block" /\ StateOf(prev_states, call.block) = "Started")
        => (call.ok /\ StateOf(block_states, call.block) = "Ended")

\* C2: if every block listed in f.blocks was started and then ended, each
\* call succeeding, check_all_blocks_ended(f) succeeds.
C2_CheckSucceedsAfterStartEnd ==
    (/\ call.op = "check_all_blocks_ended"
     /\ \A b \in Range(call.func) : StartedThenEnded(b))
        => call.ok

\* C3: after start_block(b) and a successful end_block(b), a second
\* end_block(b) with no ledger call on b in between fails, and the failure
\* names the prior state Ended.
C3_DoubleEndRejected ==
    \A b \in BlockIds :
        LET n == Len(hist[b]) IN
        (/\ call.op = "end_block" /\ call.block = b
         /\ n >= 3
         /\ hist[b][n - 2] = StartOk
         /\ hist[b][n - 1] = EndOk)
            => (~call.ok /\ call.msg.state = "Ended")

\* C4: start_block(b) on a block that was started and then ended fails with
\* "tried to start an ended block" and does not put b back into Started.
C4_RestartRejected ==
    \A b \in BlockIds :
        LET n == Len(hist[b]) IN
        (/\ call.op = "start_block" /\ call.block = b
         /\ \E i, j \in 1 .. (n - 1) :
                i < j /\ hist[b][i] = StartOk /\ hist[b][j] = EndOk)
            => (/\ ~call.ok
                /\ call.msg.text = "MIR: tried to start an ended block"
                /\ StateOf(block_states, b) # "Started")

\* The first position of f whose block is not Ended in ledger m (0 if none).
FirstNotEnded(m, f) ==
    IF \E i \in DOMAIN f : StateOf(m, f[i]) # "Ended"
    THEN CHOOSE i \in DOMAIN f :
            /\ StateOf(m, f[i]) # "Ended"
            /\ \A k \in 1 .. (i - 1) : StateOf(m, f[k]) = "Ended"
    ELSE 0

\* C5: whenever some block listed in f.blocks is not Ended (Started, or
\* Created, which includes a block with no ledger entry),
\* check_all_blocks_ended(f) fails and the failure names the index of the
\* first listed block that is not Ended.
C5_CheckNamesOffendingBlock ==
    (/\ call.op = "check_all_blocks_ended"
     /\ FirstNotEnded(block_states, call.func) # 0)
        => (/\ ~call.ok
            /\ call.msg.index = call.func[FirstNotEnded(block_states, call.func)])

\* One step of a block's ledger state that keeps the order
\* Created -> Started -> Ended: no change, or the next state.
Advance(s, t) ==
    \/ t = s
    \/ s = "Created" /\ t = "Started"
    \/ s = "Started" /\ t = "Ended"

\* C6: ledger monotonicity: under any sequence of start_block, end_block and
\* check_all_blocks_ended calls, failing ones included, every block's state
\* (absence read as Created) only ever stays or advances one step along
\* Created -> Started -> Ended: never backwards, never Created to Ended.
C6_LedgerMonotone ==
    \A b \in BlockIds :
        Advance(StateOf(prev_states, b), StateOf(block_states, b))

\* C6 witness: a block has advanced to Started and has had a further
\* successful call, another block holds an entry after a failing call on it,
\* and a check_all_blocks_ended call has failed.
C6_Witness ==
    \E b, c \in BlockIds :
        /\ b # c
        /\ StateOf(block_states, b) = "Started"
        /\ \E i, j \in DOMAIN hist[b] : i < j /\ hist[b][i] = StartOk /\ hist[b][j].ok
        /\ c \in DOMAIN block_states
        /\ \E i \in DOMAIN hist[c] : ~hist[c][i].ok
        /\ call.op = "check_all_blocks_ended" /\ ~call.ok

(***************************************************************************)
(* Properties of num_parameters (ParamSpec)                                *)
(***************************************************************************)
\* The op slots of the function's entry block.
EntryOps == blocks[func_blocks[1]]

\* Slot op (0-based OpId) of the entry block holds a MIR instruction with
\* the given tag.
SlotHas(op, tag) ==
    /\ op < Len(EntryOps)
    /\ EntryOps[op + 1].mir
    /\ instrs[EntryOps[op + 1].instr + 1].tag = tag

HasEntry == Len(func_blocks) > 0

Op0IsVoid == HasEntry /\ SlotHas(0, "Void")

AllMir == \A k \in DOMAIN EntryOps : EntryOps[k].mir

\* n is the length of the maximal run of Parameter instructions at ops
\* 1 .. n of the entry block.
IsParameterRun(n) ==
    /\ n \in 0 .. Len(EntryOps)
    /\ \A op \in 1 .. n : SlotHas(op, "Parameter")
    /\ ~SlotHas(n + 1, "Parameter")

\* C7: when the entry block holds MIR instructions only and op 0 is Void,
\* num_parameters returns the length of the maximal contiguous run of
\* Parameter instructions starting at op 1.
C7_CountsParameterPrefix ==
    (np.called /\ Op0IsVoid /\ AllMir)
        => (np.ok /\ IsParameterRun(np.value))

\* C7 witness: Void, Parameter, Const, Parameter was queried and gave 1.
C7_Witness ==
    /\ np.called /\ Op0IsVoid /\ AllMir
    /\ Len(EntryOps) = 4
    /\ SlotHas(1, "Parameter") /\ SlotHas(2, "Const") /\ SlotHas(3, "Parameter")
    /\ np.ok /\ np.value = 1

\* C8: num_parameters fails, returning no count, whenever op 0 of the entry
\* block is not the Void instruction, whatever the remaining ops are.
C8_MissingVoidPanics ==
    (np.called /\ HasEntry /\ Len(EntryOps) > 0 /\ ~SlotHas(0, "Void"))
        => (~np.ok /\ np.value = -1)

\* C8 witness: Parameter, Ret was queried and the call failed.
C8_Witness ==
    /\ np.called /\ HasEntry
    /\ Len(EntryOps) = 2
    /\ SlotHas(0, "Parameter") /\ SlotHas(1, "Ret")
    /\ ~np.ok

\* C10: when op 0 is Void, num_parameters returns a count whatever the
\* later slots hold; a slot that holds no MIR instruction ends the run.
C10_NonMirSlotEndsRun ==
    (np.called /\ Op0IsVoid)
        => (np.ok /\ IsParameterRun(np.value))

\* C10 as amended: when op 0 is Void, num_parameters returns the length of
\* the Parameter run starting at op 1 unless the slot right after the run
\* holds no MIR instruction, in which case it fails and returns no count.
C10_NonMirSlotAfterRunPanics ==
    (np.called /\ Op0IsVoid)
        => \E n \in 0 .. Len(EntryOps) :
              /\ IsParameterRun(n)
              /\ IF n + 1 < Len(EntryOps) /\ ~EntryOps[n + 2].mir
                 THEN ~np.ok /\ np.value = -1
                 ELSE np.ok /\ np.value = n

\* C10 witness: Void, Parameter, then a slot with no MIR instruction was
\* queried and the call failed.
C10_Witness ==
    /\ np.called /\ Op0IsVoid
    /\ Len(EntryOps) >= 3
    /\ SlotHas(1, "Parameter")
    /\ ~EntryOps[3].mir
    /\ ~np.ok

(***************************************************************************)
(* Properties of Const::ty (ConstSpec)                                     *)
(***************************************************************************)
\* C9: Const::ty follows the mapping: Int, Float and Str give their embedded
\* type, Bool gives Type::Bool, Ty(T) gives Type::Ty for every T, Mod gives
\* Type::Mod, StructLit{fields, id} gives Type::Struct(id) whatever the
\* fields; and it yields a type for every constant.
C9_ConstTyMapping ==
    ty_out.called =>
        /\ ty_out.ty \in Types
        /\ konst.tag \in {"Int", "Float", "Str"} => ty_out.ty = konst.ty
        /\ konst.tag = "Bool" => ty_out.ty.tag = "Bool"
        /\ konst.tag = "Ty" => ty_out.ty.tag = "Ty"
        /\ konst.tag = "Mod" => ty_out.ty.tag = "Mod"
        /\ konst.tag = "StructLit" =>
              (ty_out.ty.tag = "Struct" /\ ty_out.ty.id = konst.id)

\* C9 witness: ty was evaluated on a StructLit with an Int field.
C9_Witness ==
    /\ ty_out.called
    /\ konst.tag = "StructLit"
    /\ Len(konst.fields) = 1
    /\ konst.fields[1].tag = "Int"
    /\ ty_out.ty = [tag |-> "Struct", id |-> konst.id]

====
